---------------------------- MODULE Spec2Model ----------------------------
(***************************************************************************)
(* django-timepiece, timepiece/models.py: the time entry ledger, the       *)
(* repeating billing windows and the contract assignment allocator.        *)
(*                                                                         *)
(* Representation.  A date is a day number, day 0 being Monday 2018-01-01. *)
(* A datetime is a number of seconds since the midnight that starts day 0. *)
(* A Decimal with two decimal places is an integer number of hundredths.   *)
(* A nullable value is a set: {} is None/NULL, {v} is the value v.         *)
(* A table without a uniqueness constraint is a bag of rows.               *)
(***************************************************************************)
EXTENDS Integers, Sequences, FiniteSets, Bags, TLC

VARIABLES
    now,             \* the clock: datetime.datetime.now()
    schedules,       \* PersonSchedule rows
    contracts,       \* ProjectContract rows, by primary key
    assignments,     \* ContractAssignment rows, by primary key
    blocks,          \* AssignmentAllocation rows
    pass,            \* the allocation pass of the week: the commitments resolved so far
    entries,         \* Entry rows
    period,          \* the RepeatPeriod row
    billing_windows, \* BillingWindow rows of the period, in insertion order
    last_call,       \* the last update_billing_windows call on the period as it is now
    ranked           \* what sort_by_priority last returned

vars == <<now, schedules, contracts, assignments, blocks, pass, entries,
          period, billing_windows, last_call, ranked>>

allocVars   == <<schedules, contracts, assignments, blocks, pass>>
billingVars == <<period, billing_windows, last_call>>

-----------------------------------------------------------------------------
(* Units and nullable values *)

SecondsPerDay == 86400
SecondsPerHour == 3600
DaysPerWeek == 7
DecimalScale == 100

Dec(n) == n * DecimalScale

Null == {}
Some(v) == {v}
IsNull(x) == x = {}
Val(x) == CHOOSE v \in x : TRUE

\* Python's `x or 0`
OrZero(x) == IF IsNull(x) THEN 0 ELSE Val(x)

DayStart(d) == d * SecondsPerDay
DateOf(t) == t \div SecondsPerDay

-----------------------------------------------------------------------------
(* Bags of rows and the Sum aggregate *)

FilterBag(B, P(_)) == [r \in {x \in DOMAIN B : P(x)} |-> B[r]]

RECURSIVE TotalHours(_)
TotalHours(rows) ==
    IF DOMAIN rows = {} THEN 0
    ELSE LET r == CHOOSE x \in DOMAIN rows : TRUE
         IN  r.hours * rows[r] + TotalHours([x \in DOMAIN rows \ {r} |-> rows[x]])

\* aggregate(s=Sum('hours'))['s']: NULL over no rows
SumHours(rows) == IF DOMAIN rows = {} THEN Null ELSE Some(TotalHours(rows))

RECURSIVE TotalOf(_, _)
TotalOf(f, S) ==
    IF S = {} THEN 0
    ELSE LET x == CHOOSE y \in S : TRUE IN f[x] + TotalOf(f, S \ {x})

\* Sum of a column over the rows with the keys S of a table with primary keys
SumColumn(f, S) == IF S = {} THEN Null ELSE Some(TotalOf(f, S))

-----------------------------------------------------------------------------
(* utils: the week of a day *)

\* utils.get_week_start(day): the midnight that starts the Monday of day's
\* week; today's week when day is None
get_week_start(day) ==
    LET d == IF IsNull(day) THEN DateOf(now) ELSE DateOf(Val(day))
    IN  DayStart(d - (d % DaysPerWeek))

\* utils.get_week_window(day): (start of the week, start of the next week)
get_week_window(day) ==
    <<get_week_start(day), get_week_start(day) + DayStart(DaysPerWeek)>>

-----------------------------------------------------------------------------
(* Entry *)

\* timedelta normalisation: days is the floor, seconds the rest in [0, 86400)
TimedeltaDays(diff) == diff \div SecondsPerDay
TimedeltaSeconds(diff) == diff % SecondsPerDay

\* Entry.get_seconds.  start_time is a NOT NULL column: it is set on every row.
get_seconds(e) ==
    IF ~IsNull(e.end_time)
    THEN LET delta == Val(e.end_time) - e.start_time
             seconds == TimedeltaSeconds(delta) - e.seconds_paused
         IN  seconds + TimedeltaDays(delta) * SecondsPerDay
    ELSE 0

\* Decimal('%.2f' % round(seconds / 3600.0, 2)), in hundredths of an hour:
\* Python 2 rounds half away from zero
RoundedHours(seconds) ==
    LET half == SecondsPerHour \div 2
    IN  IF seconds >= 0
        THEN (seconds * DecimalScale + half) \div SecondsPerHour
        ELSE 0 - ((((0 - seconds) * DecimalScale) + half) \div SecondsPerHour)

\* Entry.save: hours is recomputed from the timestamps on every save
save(e) == [e EXCEPT !.hours = RoundedHours(get_seconds(e))]

is_paused(e) == ~IsNull(e.pause_time)
is_closed(e) == ~IsNull(e.end_time)

-----------------------------------------------------------------------------
(* ProjectContract *)

\* ProjectContract.hours_worked
contract_hours_worked(c) ==
    LET match(e) == /\ e.project = contracts[c].project
                    /\ e.start_time >= DayStart(contracts[c].start_date)
                    /\ ~IsNull(e.end_time)
                    /\ Val(e.end_time) < DayStart(contracts[c].end_date + 1)
    IN  OrZero(SumHours(FilterBag(entries, match)))

\* ProjectContract.hours_assigned
hours_assigned(c) ==
    LET rows == {a \in DOMAIN assignments : assignments[a].contract = c}
    IN  OrZero(SumColumn([a \in rows |-> assignments[a].num_hours], rows))

\* ProjectContract.hours_allocated
hours_allocated(c) ==
    LET match(b) == assignments[b.assignment].contract = c
    IN  SumHours(FilterBag(blocks, match))

\* ProjectContract.hours_remaining
contract_hours_remaining(c) == contracts[c].num_hours - contract_hours_worked(c)

-----------------------------------------------------------------------------
(* ContractAssignment *)

\* ContractAssignment._filtered_hours_worked(end_date)
filtered_hours_worked(a, end_date) ==
    LET match(e) == /\ e.user = assignments[a].contact
                    /\ e.project = contracts[assignments[a].contract].project
                    /\ e.start_time >= DayStart(assignments[a].start_date)
                    /\ ~IsNull(e.end_time)
                    /\ Val(e.end_time) < end_date
    IN  OrZero(SumHours(FilterBag(entries, match)))

\* ContractAssignment.hours_worked
assignment_hours_worked(a) ==
    filtered_hours_worked(a, DayStart(assignments[a].end_date + 1))

\* ContractAssignment.allocated_hours_for_week
allocated_hours_for_week(a, day) ==
    LET window == get_week_window(day)
        match(b) == /\ assignments[b.assignment].contact = assignments[a].contact
                    /\ DayStart(b.date) >= window[1]
                    /\ DayStart(b.date) < window[2]
    IN  OrZero(SumHours(FilterBag(blocks, match)))

DefaultHoursPerWeek == 40

\* ContractAssignment.unallocated_hours_for_week
unallocated_hours_for_week(a, day) ==
    LET allocated == allocated_hours_for_week(a, day)
        schedule == {s \in schedules : s.contact = assignments[a].contact}
    IN  IF schedule # {}
        THEN (CHOOSE s \in schedule : TRUE).hours_per_week - allocated
        ELSE Dec(DefaultHoursPerWeek) - allocated

\* remaining_contracts without the end_date filter
remaining_contracts_any_end(a) ==
    {o \in DOMAIN assignments \ {a} :
        assignments[o].contact = assignments[a].contact}

\* ContractAssignment.remaining_contracts
remaining_contracts(a) ==
    {o \in DOMAIN assignments \ {a} :
        /\ assignments[o].end_date >= assignments[a].end_date
        /\ assignments[o].contact = assignments[a].contact}

\* ContractAssignment.remaining_min_hours
remaining_min_hours(a) ==
    LET rows == remaining_contracts(a)
    IN  Dec(OrZero(SumColumn([o \in rows |-> assignments[o].min_hours_per_week], rows)))

\* the balance weekly_commitment computes: num_hours less the hours worked
\* before the week and the hours of the assignment's own blocks, floored at 0
remaining_balance(a, day) ==
    LET week_start == get_week_start(day)
        own(b) == b.assignment = a
        total_allocated == OrZero(SumHours(FilterBag(blocks, own)))
        remaining == assignments[a].num_hours
                       - filtered_hours_worked(a, week_start) - total_allocated
    IN  IF remaining < 0 THEN 0 ELSE remaining

\* weekly_commitment without the reduction to the remaining hours
weekly_commitment_uncapped(a, day) ==
    LET unallocated == unallocated_hours_for_week(a, day)
        min_hours == Dec(assignments[a].min_hours_per_week)
        afterReservation == unallocated - remaining_min_hours(a)
    IN  IF afterReservation < min_hours /\ unallocated >= min_hours
        THEN min_hours
        ELSE afterReservation

\* weekly_commitment without the raise to the minimum weekly hours
weekly_commitment_unraised(a, day) ==
    LET afterReservation == unallocated_hours_for_week(a, day) - remaining_min_hours(a)
        remaining == remaining_balance(a, day)
    IN  IF afterReservation > remaining THEN remaining ELSE afterReservation

\* weekly_commitment that raises to the minimum whatever is unallocated
weekly_commitment_always_raised(a, day) ==
    LET min_hours == Dec(assignments[a].min_hours_per_week)
        afterReservation == unallocated_hours_for_week(a, day) - remaining_min_hours(a)
        afterMinimum == IF afterReservation < min_hours THEN min_hours
                        ELSE afterReservation
        remaining == remaining_balance(a, day)
    IN  IF afterMinimum > remaining THEN remaining ELSE afterMinimum

\* ContractAssignment.weekly_commitment
weekly_commitment(a, day) ==
    LET unallocated == unallocated_hours_for_week(a, day)
        reserved == remaining_min_hours(a)
        min_hours == Dec(assignments[a].min_hours_per_week)
        afterReservation == unallocated - reserved
        afterMinimum == IF afterReservation < min_hours /\ unallocated >= min_hours
                        THEN min_hours
                        ELSE afterReservation
        remaining == remaining_balance(a, day)
    IN  IF afterMinimum > remaining THEN remaining ELSE afterMinimum

-----------------------------------------------------------------------------
(* PersonRepeatPeriod *)

\* settings.TIMEPIECE_PROJECTS: the projects that are not work (vacation, sick)
TIMEPIECE_PROJECTS == {}

\* PersonRepeatPeriod.hours_in_week
hours_in_week(user, date) ==
    LET window == get_week_window(date)
        match(e) == /\ e.project \notin TIMEPIECE_PROJECTS
                    /\ e.user = user
                    /\ ~IsNull(e.end_time)
                    /\ Val(e.end_time) > window[1]
                    /\ Val(e.end_time) < window[2]
    IN  SumHours(FilterBag(entries, match))

\* PersonRepeatPeriod.summary: data['total']
summary_total(user, date, end_date) ==
    LET match(e) == /\ e.user = user
                    /\ ~IsNull(e.end_time)
                    /\ Val(e.end_time) > date
                    /\ Val(e.end_time) <= end_date
    IN  SumHours(FilterBag(entries, match))

-----------------------------------------------------------------------------
(* The store the allocator reads: bounds and input values *)

\* rows stored by hand, blocks and entries together, and steps of the pass
MaxRows == 1
MaxPass == 2

StoredRows == (BagCardinality(blocks) - Len(pass)) + BagCardinality(entries)

Persons == {"p1", "p2"}
Person == "p1"
ContractIds == {1, 2, 3}
AssignmentIds == {1, 2, 3}

\* the week the pass allocates is days 7..13; the clock stands in it
AllocNow == DayStart(9) + 10 * SecondsPerHour
ThisWeek == DateOf(get_week_start(Null))

ContractHours == <<Dec(5), Dec(100), Dec(100)>>
CapacityValues == {Dec(10), Dec(40)}
NumHoursValues == {Dec(5), Dec(40)}
MinHoursValues == {10, 20}
FirstEndDates == {11, 18}
SecondEndDates == {18, 25}
BlockDates == {7, 14}
BlockHoursValues == {Dec(35)}
LedgerStarts == {DayStart(2) + 9 * SecondsPerHour, DayStart(8) + 9 * SecondsPerHour}
LedgerProjects == {1, 2}
LedgerSeconds == 5 * SecondsPerHour

NewAssignment(c, who, start, end, hours, min) ==
    [contract |-> c, contact |-> who, start_date |-> start, end_date |-> end,
     num_hours |-> hours, min_hours_per_week |-> min]

NewEntry(user, project, start, end, paused) ==
    [user |-> user, project |-> project, start_time |-> start, end_time |-> end,
     seconds_paused |-> paused, pause_time |-> Null, hours |-> 0]

\* the weeks weekly_commitment is asked about: this week and the next
QueryDays == {Some(now), Some(now + DayStart(DaysPerWeek))}

NotRanked == [queryset |-> <<>>, result |-> <<>>]

NoBilling ==
    /\ period = [count |-> 1, interval |-> "day"]
    /\ billing_windows = <<>>
    /\ last_call = Null

InitAlloc ==
    /\ now = AllocNow
    /\ contracts = [c \in ContractIds |->
                      [project |-> c, start_date |-> 0, end_date |-> 27,
                       num_hours |-> ContractHours[c]]]
    /\ \E e1 \in FirstEndDates, e2 \in SecondEndDates,
          h1 \in NumHoursValues, h2 \in NumHoursValues,
          m1 \in MinHoursValues, m2 \in MinHoursValues :
         assignments = (1 :> NewAssignment(1, Person, 0, e1, h1, m1))
                    @@ (2 :> NewAssignment(2, Person, 0, e2, h2, m2))
                    @@ (3 :> NewAssignment(3, "p2", 0, 25, Dec(40), 20))
    /\ \/ schedules = {}
       \/ \E h \in CapacityValues :
            schedules = {[contact |-> Person, hours_per_week |-> h]}
    /\ blocks = EmptyBag
    /\ pass = <<>>
    /\ entries = EmptyBag
    /\ ranked = NotRanked
    /\ NoBilling

\* AssignmentAllocation(assignment, date, hours).save(): a block that exists
\* before the week's pass starts
AddBlock(a, date, hours) ==
    /\ pass = <<>>
    /\ StoredRows < MaxRows
    /\ blocks' = blocks (+) SetToBag({[assignment |-> a, date |-> date, hours |-> hours]})
    /\ UNCHANGED <<now, schedules, contracts, assignments, pass, entries, ranked>>
    /\ UNCHANGED billingVars

\* Entry(...).save() of a closed entry of the person
AddEntry(project, start) ==
    /\ StoredRows < MaxRows
    /\ entries' = entries (+)
         SetToBag({save(NewEntry(Person, project, start, Some(start + LedgerSeconds), 0))})
    /\ UNCHANGED <<now, ranked>>
    /\ UNCHANGED allocVars
    /\ UNCHANGED billingVars

\* One step of the week's pass: weekly_commitment of the assignment is
\* resolved and stored as the assignment's block of the week
Resolve(a) ==
    /\ Len(pass) < MaxPass
    /\ assignments[a].contact = Person
    /\ LET hours == weekly_commitment(a, Some(now))
       IN  /\ blocks' = blocks (+)
                SetToBag({[assignment |-> a, date |-> ThisWeek, hours |-> hours]})
           /\ pass' = Append(pass, [assignment |-> a, hours |-> hours])
    /\ UNCHANGED <<now, schedules, contracts, assignments, entries, ranked>>
    /\ UNCHANGED billingVars

NextAlloc ==
    \/ \E a \in AssignmentIds, date \in BlockDates, hours \in BlockHoursValues :
         AddBlock(a, date, hours)
    \/ \E project \in LedgerProjects, start \in LedgerStarts : AddEntry(project, start)
    \/ \E a \in AssignmentIds : Resolve(a)

Spec == InitAlloc /\ [][NextAlloc]_vars

-----------------------------------------------------------------------------
(* Claims about weekly_commitment *)

\* The quantities the claims name, stated from the rows of the store

Capacity(who) ==
    IF \E s \in schedules : s.contact = who
    THEN (CHOOSE s \in schedules : s.contact = who).hours_per_week
    ELSE Dec(40)

\* hours of all blocks of the person dated in the week of day
BlockHoursInWeek(who, day) ==
    LET inWeek(b) == /\ assignments[b.assignment].contact = who
                     /\ b.date >= DateOf(get_week_start(day))
                     /\ b.date < DateOf(get_week_start(day)) + 7
    IN  TotalHours(FilterBag(blocks, inWeek))

Unallocated(who, day) == Capacity(who) - BlockHoursInWeek(who, day)

\* num_hours, less the person's entries on the contract's project that started
\* on or after the assignment start and ended before the week, less the
\* assignment's blocks; floored at 0
Balance(a, day) ==
    LET counted(e) == /\ e.user = assignments[a].contact
                      /\ e.project = contracts[assignments[a].contract].project
                      /\ e.start_time >= DayStart(assignments[a].start_date)
                      /\ e.end_time # Null
                      /\ Val(e.end_time) < get_week_start(day)
        own(b) == b.assignment = a
        left == assignments[a].num_hours - TotalHours(FilterBag(entries, counted))
                  - TotalHours(FilterBag(blocks, own))
    IN  IF left < 0 THEN 0 ELSE left

\* C1: weekly_commitment is never negative, for every assignment, every week
\* and every state of the store.
C1_NeverNegative ==
    \A a \in DOMAIN assignments : \A day \in QueryDays :
        weekly_commitment(a, day) >= 0

\* C2: weekly_commitment never returns more than the assignment's own
\* remaining balance.
C2_AtMostBalance ==
    \A a \in DOMAIN assignments : \A day \in QueryDays :
        weekly_commitment(a, day) <= Balance(a, day)

\* a state where the cap acts: capacity less reservations exceeds the balance,
\* and the pass has stored exactly the balance
C2_Witness ==
    /\ Len(pass) = 1
    /\ BagCardinality(blocks) = 1
    /\ LET a == pass[1].assignment
       IN  /\ pass[1].hours = assignments[a].num_hours
           /\ pass[1].hours > 0
           /\ Capacity(Person) - remaining_min_hours(a) > pass[1].hours
           /\ Balance(a, Some(now)) = 0

\* C3: when the person's unallocated hours of the week and the assignment's
\* remaining balance are both at least min_hours_per_week, weekly_commitment
\* returns at least min_hours_per_week, whatever the other assignments reserve.
C3_FloorMet ==
    \A a \in DOMAIN assignments : \A day \in QueryDays :
        LET min == Dec(assignments[a].min_hours_per_week)
        IN  (Unallocated(assignments[a].contact, day) >= min /\ Balance(a, day) >= min)
                => weekly_commitment(a, day) >= min

\* a state where the reservations alone would starve the assignment and the
\* floor is what it gets
C3_Witness ==
    /\ Len(pass) = 1
    /\ BagCardinality(blocks) = 1
    /\ entries = EmptyBag
    /\ LET a == pass[1].assignment
           min == Dec(assignments[a].min_hours_per_week)
       IN  /\ Capacity(Person) >= min
           /\ assignments[a].num_hours >= min
           /\ Capacity(Person) - remaining_min_hours(a) < min
           /\ pass[1].hours = min

\* C4: a contract with 0 remaining balance yields weekly_commitment 0 for
\* every assignment under it.
C4_ZeroContractZeroCommitment ==
    \A a \in DOMAIN assignments : \A day \in QueryDays :
        contract_hours_remaining(assignments[a].contract) = 0
            => weekly_commitment(a, day) = 0

\* the blocks in the store are exactly the blocks the pass has stored
OnlyPassBlocks == BagCardinality(blocks) = Len(pass)

EndsThisWeek(a) ==
    /\ assignments[a].end_date >= ThisWeek
    /\ assignments[a].end_date < ThisWeek + 7

\* C5: when assignment A, ending this week, is resolved first and stored, and
\* B, ending later, is resolved afterwards, A's minimum is not in B's reserved
\* hours and B's unallocated hours are the capacity less A's block; with
\* capacity 40, A min 20 and balance 5, B min 10 and balance at least 35 and no
\* prior blocks, A gets 5 and B gets 35.
C5_SequentialRationing ==
    \A a \in DOMAIN assignments : \A b \in DOMAIN assignments :
        ( /\ a # b
          /\ assignments[a].contact = Person
          /\ assignments[b].contact = Person
          /\ EndsThisWeek(a)
          /\ assignments[b].end_date > assignments[a].end_date
          /\ OnlyPassBlocks
          /\ Len(pass) >= 1
          /\ pass[1].assignment = a )
        => /\ a \notin remaining_contracts(b)
           /\ Len(pass) = 1 =>
                unallocated_hours_for_week(b, Some(now))
                    = Capacity(Person) - pass[1].hours
           /\ ( /\ Capacity(Person) = Dec(40)
                /\ entries = EmptyBag
                /\ assignments[a].min_hours_per_week = 20
                /\ assignments[a].num_hours = Dec(5)
                /\ assignments[b].min_hours_per_week = 10
                /\ assignments[b].num_hours >= Dec(35) )
              => /\ pass[1].hours = Dec(5)
                 /\ (Len(pass) = 2 /\ pass[2].assignment = b)
                        => pass[2].hours = Dec(35)

\* the scenario of C5 after both steps of the pass
C5_Witness ==
    /\ Len(pass) = 2
    /\ OnlyPassBlocks
    /\ entries = EmptyBag
    /\ Capacity(Person) = Dec(40)
    /\ pass[1].assignment = 1
    /\ pass[2].assignment = 2
    /\ EndsThisWeek(1)
    /\ assignments[2].end_date > assignments[1].end_date
    /\ assignments[1].min_hours_per_week = 20
    /\ assignments[1].num_hours = Dec(5)
    /\ assignments[2].min_hours_per_week = 10
    /\ assignments[2].num_hours >= Dec(35)
    /\ pass[1].hours = Dec(5)
    /\ pass[2].hours = Dec(35)

\* C10: every operation that sums hours over a filtered set of records
\* returns 0, never a null value, when the set is empty.
C10_SumsNeverNull ==
    /\ \A a \in DOMAIN assignments : assignment_hours_worked(a) \in Int
    /\ \A c \in DOMAIN contracts :
        /\ contract_hours_worked(c) \in Int
        /\ hours_assigned(c) \in Int
        /\ hours_allocated(c) # Null
    /\ \A who \in Persons :
        /\ hours_in_week(who, Some(now)) # Null
        /\ summary_total(who, get_week_start(Null), now) # Null

-----------------------------------------------------------------------------
(* AssignmentManager.sort_by_priority *)

\* this_weeks_priority_number with the start date tested before the end date
priority_number_start_first(a) ==
    LET weeks == get_week_window(Some(now))
    IN  IF /\ assignments[a].start_date < DateOf(weeks[2])
           /\ assignments[a].start_date >= DateOf(weeks[1])
        THEN 1
        ELSE IF /\ assignments[a].end_date < DateOf(weeks[2])
                /\ assignments[a].end_date >= DateOf(weeks[1])
             THEN 0
             ELSE 2

\* ContractAssignment.this_weeks_priority_number
this_weeks_priority_number(a) ==
    LET weeks == get_week_window(Some(now))
    IN  IF /\ assignments[a].end_date < DateOf(weeks[2])
           /\ assignments[a].end_date >= DateOf(weeks[1])
        THEN 0
        ELSE IF /\ assignments[a].start_date < DateOf(weeks[2])
                /\ assignments[a].start_date >= DateOf(weeks[1])
             THEN 1
             ELSE 2

\* sorted(): x goes after the last element whose key is not greater
RECURSIVE Insert(_, _, _)
Insert(x, kx, sorted) ==
    IF sorted = <<>> THEN <<x>>
    ELSE IF this_weeks_priority_number(sorted[Len(sorted)]) <= kx
         THEN Append(sorted, x)
         ELSE Append(Insert(x, kx, SubSeq(sorted, 1, Len(sorted) - 1)),
                     sorted[Len(sorted)])

RECURSIVE SortedByKey(_)
SortedByKey(q) ==
    IF q = <<>> THEN <<>>
    ELSE Insert(q[Len(q)], this_weeks_priority_number(q[Len(q)]),
                SortedByKey(SubSeq(q, 1, Len(q) - 1)))

\* AssignmentManager.sort_by_priority, of the rows in the order the query
\* returns them
sort_by_priority(queryset) == SortedByKey(queryset)

\* the orders a query without ORDER BY may return the rows in
Querysets ==
    {q \in [1..Cardinality(DOMAIN assignments) -> DOMAIN assignments] :
        \A i, j \in DOMAIN q : i # j => q[i] # q[j]}

PriorityNows == {DayStart(9), DayStart(12) + SecondsPerHour, DayStart(16)}
PriorityDates == {<<0, 10>>, <<0, 20>>, <<8, 10>>, <<8, 20>>}

InitPriority ==
    /\ now \in PriorityNows
    /\ contracts = [c \in ContractIds |->
                      [project |-> c, start_date |-> 0, end_date |-> 27,
                       num_hours |-> Dec(100)]]
    /\ \E d \in [AssignmentIds -> PriorityDates] :
         assignments = [a \in AssignmentIds |->
                          NewAssignment(a, Person, d[a][1], d[a][2], Dec(40), 10)]
    /\ schedules = {}
    /\ blocks = EmptyBag
    /\ pass = <<>>
    /\ entries = EmptyBag
    /\ ranked = NotRanked
    /\ NoBilling

SortByPriority(queryset) ==
    /\ ranked' = [queryset |-> queryset, result |-> sort_by_priority(queryset)]
    /\ UNCHANGED <<now, entries>>
    /\ UNCHANGED allocVars
    /\ UNCHANGED billingVars

NextPriority == \E queryset \in Querysets : SortByPriority(queryset)

SpecPriority == InitPriority /\ [][NextPriority]_vars

\* the classes of the claim, from the dates
InCurrentWeek(date) ==
    /\ date >= DateOf(now) - (DateOf(now) % 7)
    /\ date < DateOf(now) - (DateOf(now) % 7) + 7

Ending(a) == InCurrentWeek(assignments[a].end_date)
Starting(a) == InCurrentWeek(assignments[a].start_date) /\ ~Ending(a)
Ongoing(a) == ~Ending(a) /\ ~Starting(a)

\* C6: sort_by_priority returns every assignment ending in the current week
\* before every assignment starting (but not ending) in it, and those before
\* every assignment with neither date in it; an assignment that both starts
\* and ends in the current week counts as ending.
C6_PriorityOrder ==
    ranked # NotRanked =>
        LET r == ranked.result
        IN  /\ Len(r) = Cardinality(DOMAIN assignments)
            /\ {r[i] : i \in DOMAIN r} = DOMAIN assignments
            /\ \A i, j \in DOMAIN r :
                 i < j => /\ ~(Ending(r[j]) /\ ~Ending(r[i]))
                          /\ ~(Starting(r[j]) /\ Ongoing(r[i]))

\* a query that returned an ongoing, a starting and a both-starting-and-ending
\* assignment in the wrong order, sorted
C6_Witness ==
    /\ ranked # NotRanked
    /\ Ongoing(ranked.queryset[1])
    /\ Starting(ranked.queryset[2])
    /\ Ending(ranked.queryset[3])
    /\ InCurrentWeek(assignments[ranked.queryset[3]].start_date)
    /\ ranked.result = <<ranked.queryset[3], ranked.queryset[2], ranked.queryset[1]>>

-----------------------------------------------------------------------------
(* The calendar: dates as day numbers, day 0 being 2018-01-01 *)

Years == 2018..2025
FirstYear == CHOOSE y \in Years : \A z \in Years : y <= z

IsLeap(y) == (y % 4 = 0 /\ y % 100 # 0) \/ y % 400 = 0

DaysInMonth(y, m) ==
    IF m = 2 THEN (IF IsLeap(y) THEN 29 ELSE 28)
    ELSE IF m \in {4, 6, 9, 11} THEN 30 ELSE 31

DaysInYear(y) == IF IsLeap(y) THEN 366 ELSE 365

RECURSIVE DaysBeforeYear(_)
DaysBeforeYear(y) ==
    IF y = FirstYear THEN 0 ELSE DaysBeforeYear(y - 1) + DaysInYear(y - 1)

RECURSIVE DaysBeforeMonth(_, _)
DaysBeforeMonth(y, m) ==
    IF m = 1 THEN 0 ELSE DaysBeforeMonth(y, m - 1) + DaysInMonth(y, m - 1)

Ordinal(y, m, d) == DaysBeforeYear(y) + DaysBeforeMonth(y, m) + (d - 1)

YearOf(date) ==
    CHOOSE y \in Years : DaysBeforeYear(y) <= date /\ date < DaysBeforeYear(y) + DaysInYear(y)

MonthOf(date) ==
    LET y == YearOf(date)
        n == date - DaysBeforeYear(y)
    IN  CHOOSE m \in 1..12 :
            DaysBeforeMonth(y, m) <= n /\ n < DaysBeforeMonth(y, m) + DaysInMonth(y, m)

DayOf(date) ==
    LET y == YearOf(date)
    IN  date - DaysBeforeYear(y) - DaysBeforeMonth(y, MonthOf(date)) + 1

\* date + relativedelta(months=n): the day is cut to the target month's last
AddMonths(date, n) ==
    LET total == (YearOf(date) * 12 + (MonthOf(date) - 1)) + n
        y == total \div 12
        m == (total % 12) + 1
        d == IF DayOf(date) > DaysInMonth(y, m) THEN DaysInMonth(y, m) ELSE DayOf(date)
    IN  Ordinal(y, m, d)

-----------------------------------------------------------------------------
(* RepeatPeriod and BillingWindow *)

MaxWindows == 3

\* date + RepeatPeriod.delta()
PlusDelta(date, p) ==
    CASE p.interval = "day"   -> date + p.count
      [] p.interval = "week"  -> date + DaysPerWeek * p.count
      [] p.interval = "month" -> AddMonths(date, p.count)
      [] p.interval = "year"  -> AddMonths(date, 12 * p.count)

\* billing_windows.order_by('-date')[0]: a row with the latest date
LatestWindows ==
    {w \in {billing_windows[i] : i \in DOMAIN billing_windows} :
        \A i \in DOMAIN billing_windows : billing_windows[i].date <= w.date}

\* the loop's turn without the branch for a changed delta
NextWindowSameDelta(window) ==
    [date |-> PlusDelta(window.date, period),
     end_date |-> PlusDelta(window.end_date, period)]

\* one turn of the loop of update_billing_windows: the row inserted after window
NextWindow(window) ==
    [date |-> IF PlusDelta(window.date, period) = window.end_date
              THEN PlusDelta(window.date, period)
              ELSE window.end_date,
     end_date |-> PlusDelta(window.end_date, period)]

\* the loop with its test after the body
RECURSIVE InsertedWindowsTestLast(_, _, _)
InsertedWindowsTestLast(window, date_boundary, room) ==
    IF room > 0
    THEN <<NextWindow(window)>> \o
            (IF PlusDelta(NextWindow(window).date, period) <= date_boundary
             THEN InsertedWindowsTestLast(NextWindow(window), date_boundary, room - 1)
             ELSE <<>>)
    ELSE <<>>

\* the loop of update_billing_windows: the rows it inserts, in order.  The
\* loop is followed for at most `room` rows: a call that would insert more
\* leaves the bounds of the model.
RECURSIVE InsertedWindows(_, _, _)
InsertedWindows(window, date_boundary, room) ==
    IF room > 0 /\ PlusDelta(window.date, period) <= date_boundary
    THEN <<NextWindow(window)>>
            \o InsertedWindows(NextWindow(window), date_boundary, room - 1)
    ELSE <<>>

\* billing_windows.filter(date__gt=start_date).order_by('date')
WindowsAfter(rows, start_date) ==
    SortSeq(SelectSeq(rows, LAMBDA w : w.date > start_date),
            LAMBDA v, w : v.date < w.date)

BillingNow == DayStart(32) + 9 * SecondsPerHour
Boundaries == {Null, Some(100), Some(830), Some(1200)}
Counts == {1, 2}
Intervals == {"day", "week", "month", "year"}
SeedDates == {30, 789}

InitBilling ==
    /\ now = BillingNow
    /\ \E count \in Counts, interval \in Intervals :
         period = [count |-> count, interval |-> interval]
    /\ \E date \in SeedDates :
         billing_windows = <<[date |-> date, end_date |-> PlusDelta(date, period)]>>
    /\ last_call = Null
    /\ contracts = <<>>
    /\ assignments = <<>>
    /\ schedules = {}
    /\ blocks = EmptyBag
    /\ pass = <<>>
    /\ entries = EmptyBag
    /\ ranked = NotRanked

\* RepeatPeriod.update_billing_windows(date_boundary)
UpdateBillingWindows(date_boundary) ==
    LET boundary == IF IsNull(date_boundary) THEN DateOf(now) ELSE Val(date_boundary)
    IN  /\ billing_windows # <<>>
        /\ \E window \in LatestWindows :
             LET created == InsertedWindows(window, boundary,
                                            MaxWindows + 1 - Len(billing_windows))
                 rows == billing_windows \o created
             IN  /\ Len(rows) <= MaxWindows
                 /\ billing_windows' = rows
                 /\ last_call' =
                      Some([date_boundary |-> boundary,
                            repeated |-> /\ ~IsNull(last_call)
                                         /\ Val(last_call).date_boundary = boundary,
                            created |-> Len(created),
                            returned |-> WindowsAfter(rows, window.date)])
        /\ UNCHANGED <<now, period, entries, ranked>>
        /\ UNCHANGED allocVars

\* the period's count or interval is edited and saved
SetPeriod(count, interval) ==
    /\ period # [count |-> count, interval |-> interval]
    /\ period' = [count |-> count, interval |-> interval]
    /\ last_call' = Null
    /\ UNCHANGED <<now, billing_windows, entries, ranked>>
    /\ UNCHANGED allocVars

NextBilling ==
    \/ \E date_boundary \in Boundaries : UpdateBillingWindows(date_boundary)
    \/ \E count \in Counts, interval \in Intervals : SetPeriod(count, interval)

SpecBilling == InitBilling /\ [][NextBilling]_vars

WindowsByDate == SortSeq(billing_windows, LAMBDA v, w : v.date < w.date)

\* C7: from one seed window, after any sequence of update_billing_windows
\* calls and changes of the period, the windows ordered by date are gapless:
\* each window's end_date is the date of the next.
C7_Gapless ==
    /\ \A i, j \in DOMAIN billing_windows :
         i # j => billing_windows[i].date # billing_windows[j].date
    /\ \A i \in 1..(Len(WindowsByDate) - 1) :
         WindowsByDate[i].end_date = WindowsByDate[i + 1].date

\* windows inserted under two different deltas
C7_Witness ==
    /\ Len(billing_windows) >= 3
    /\ \E i \in 1..(Len(billing_windows) - 1) :
         /\ PlusDelta(billing_windows[i].date, period) # billing_windows[i].end_date
         /\ PlusDelta(billing_windows[i + 1].date, period) = billing_windows[i + 1].end_date

\* C8: a second update_billing_windows call with the same boundary on the
\* unchanged period creates no window and returns none; no call changes the
\* date or end_date of a window that existed before it.
C8_RepeatedCall ==
    (~IsNull(last_call) /\ Val(last_call).repeated)
        => (Val(last_call).created = 0 /\ Val(last_call).returned = <<>>)

C8_PastWindowsKept ==
    /\ Len(billing_windows') >= Len(billing_windows)
    /\ \A i \in DOMAIN billing_windows : billing_windows'[i] = billing_windows[i]

C8_Idempotent == [](C8_RepeatedCall) /\ [][C8_PastWindowsKept]_vars

\* a second call after a first call that created windows
C8_Witness ==
    /\ ~IsNull(last_call)
    /\ Val(last_call).repeated
    /\ Len(billing_windows) >= 3
    /\ PlusDelta(billing_windows[Len(billing_windows)].date, period)
         > Val(last_call).date_boundary

-----------------------------------------------------------------------------
(* Entry.is_overlapping *)

\* the entries of e's user that the three Q filters select: end_time in
\* [start, end], start_time in [start, end], or spanning both
OverlapCandidates(e) ==
    LET lo == e.start_time
        hi == Val(e.end_time)
        match(o) ==
            /\ o.user = e.user
            /\ \/ ~IsNull(o.end_time) /\ Val(o.end_time) >= lo /\ Val(o.end_time) <= hi
               \/ o.start_time >= lo /\ o.start_time <= hi
               \/ o.start_time <= lo /\ ~IsNull(o.end_time) /\ Val(o.end_time) >= hi
    IN  FilterBag(entries, match)

RECURSIVE TotalSeconds(_)
TotalSeconds(rows) ==
    IF DOMAIN rows = {} THEN 0
    ELSE LET r == CHOOSE x \in DOMAIN rows : TRUE
         IN  get_seconds(r) * rows[r]
               + TotalSeconds([x \in DOMAIN rows \ {r} |-> rows[x]])

\* aggregate(max=Max('end_time'), min=Min('start_time')): NULLs are skipped
MaxEndTime(rows) ==
    LET ends == {Val(o.end_time) : o \in {x \in DOMAIN rows : ~IsNull(x.end_time)}}
    IN  CHOOSE t \in ends : \A u \in ends : u <= t

MinStartTime(rows) ==
    LET starts == {o.start_time : o \in DOMAIN rows}
    IN  CHOOSE t \in starts : \A u \in starts : t <= u

\* Entry.is_overlapping of a saved entry: True, False, or None when the
\* entry has no end_time
is_overlapping(e) ==
    IF ~IsNull(e.end_time)
    THEN LET rows == OverlapCandidates(e)
             diff == MaxEndTime(rows) - MinStartTime(rows)
         IN  Some(TotalSeconds(rows)
                    > TimedeltaSeconds(diff) + TimedeltaDays(diff) * SecondsPerDay)
    ELSE Null

-----------------------------------------------------------------------------
(* The entry timer *)

MaxEntries == 2

Replace(B, old, new) == (B (-) SetToBag({old})) (+) SetToBag({new})

\* the rows of B through F, row by row
MapBag(B, F(_)) ==
    [r \in {F(x) : x \in DOMAIN B} |->
        LET from == {x \in DOMAIN B : F(x) = r}
        IN  TotalOf([x \in from |-> B[x]], from)]

\* Entry.pause
pause(e) == IF ~is_paused(e) THEN [e EXCEPT !.pause_time = Some(now)] ELSE e

\* pause_all that pauses nothing
pause_all_nothing(rows, user) == rows

\* Entry.pause_all: every open entry of the user is paused and saved
pause_all(rows, user) ==
    LET paused(e) == IF e.user = user /\ IsNull(e.end_time) THEN save(pause(e)) ELSE e
    IN  MapBag(rows, paused)

\* Entry.unpause, after its pause_all
unpause(e, date) ==
    IF is_paused(e)
    THEN LET at == IF IsNull(date) THEN now ELSE Val(date)
             delta == at - Val(e.pause_time)
         IN  [e EXCEPT !.seconds_paused = @ + TimedeltaSeconds(delta),
                       !.pause_time = Null]
    ELSE e

EntryEpoch == DayStart(1)
\* the instants at which the clock is read
ClockValues == {EntryEpoch, EntryEpoch + SecondsPerDay + 900}
RecordedStarts == {EntryEpoch, EntryEpoch + 2 * SecondsPerHour}
RecordedEnds == {EntryEpoch + SecondsPerHour, EntryEpoch + SecondsPerDay + SecondsPerHour}
RecordedPauses == {0, 1800, 2 * SecondsPerHour}
UnpauseDates == {Null}
EntryProjects == {1}

InitEntry ==
    /\ now = EntryEpoch
    /\ entries = EmptyBag
    /\ contracts = <<>>
    /\ assignments = <<>>
    /\ schedules = {}
    /\ blocks = EmptyBag
    /\ pass = <<>>
    /\ ranked = NotRanked
    /\ NoBilling

EntryFrame ==
    /\ UNCHANGED <<now, ranked>>
    /\ UNCHANGED allocVars
    /\ UNCHANGED billingVars

\* Entry(user, project, start_time, end_time, seconds_paused).save()
RecordEntry(user, project, start, end, paused) ==
    /\ BagCardinality(entries) < MaxEntries
    /\ start < end
    /\ entries' = entries (+)
         SetToBag({save(NewEntry(user, project, start, Some(end), paused))})
    /\ EntryFrame

\* entry = Entry(); entry.clock_in(user, project); entry.save()
ClockIn(user, project) ==
    /\ BagCardinality(entries) < MaxEntries
    /\ entries' = pause_all(entries, user) (+)
         SetToBag({save(NewEntry(user, project, now, Null, 0))})
    /\ EntryFrame

\* entry.pause(); entry.save()
Pause(e) ==
    /\ e \in DOMAIN entries
    /\ entries' = Replace(entries, e, save(pause(e)))
    /\ EntryFrame

\* entry.unpause(date); entry.save()
Unpause(e, date) ==
    /\ e \in DOMAIN entries
    /\ entries' = IF is_paused(e)
                  THEN Replace(pause_all(entries, e.user), e, save(unpause(e, date)))
                  ELSE Replace(entries, e, save(e))
    /\ EntryFrame

\* entry.toggle_paused(); entry.save()
TogglePaused(e) ==
    /\ e \in DOMAIN entries
    /\ entries' = IF is_paused(e)
                  THEN Replace(pause_all(entries, e.user), e, save(unpause(e, Null)))
                  ELSE Replace(entries, e, save(pause(e)))
    /\ EntryFrame

\* the clock moves on
Tick(t) ==
    /\ t > now
    /\ now' = t
    /\ UNCHANGED <<entries, ranked>>
    /\ UNCHANGED allocVars
    /\ UNCHANGED billingVars

NextEntry ==
    \/ \E user \in Persons, project \in EntryProjects, start \in RecordedStarts,
          end \in RecordedEnds, paused \in RecordedPauses :
         RecordEntry(user, project, start, end, paused)
    \/ \E user \in Persons, project \in EntryProjects : ClockIn(user, project)
    \/ \E e \in DOMAIN entries : Pause(e)
    \/ \E e \in DOMAIN entries, date \in UnpauseDates : Unpause(e, date)
    \/ \E e \in DOMAIN entries : TogglePaused(e)
    \/ \E t \in ClockValues : Tick(t)

SpecEntry == InitEntry /\ [][NextEntry]_vars

\* C9: get_seconds is max(0, whole seconds from start_time to end_time less
\* seconds_paused) when end_time is set, whatever seconds_paused is, and 0
\* when end_time is unset.
C9_ElapsedSeconds ==
    \A e \in DOMAIN entries :
        get_seconds(e) =
            IF e.end_time # Null
            THEN LET elapsed == (Val(e.end_time) - e.start_time) - e.seconds_paused
                 IN  IF elapsed > 0 THEN elapsed ELSE 0
            ELSE 0

\* the open entries of the user that are not paused, counted row by row
Running(user) ==
    LET running(e) == e.user = user /\ IsNull(e.end_time) /\ ~is_paused(e)
    IN  BagCardinality(FilterBag(entries, running))

\* C11: after any sequence of clock_in, pause, unpause and toggle_paused, each
\* saved before the next, at most one open entry of a person is not paused.
C11_OneRunningEntry == \A user \in Persons : Running(user) <= 1

\* an entry that was paused by a later clock_in and has been unpaused since:
\* the later entry is now the paused one
C11_Witness ==
    \E e \in DOMAIN entries, o \in DOMAIN entries :
        /\ e.user = o.user
        /\ IsNull(e.end_time) /\ IsNull(o.end_time)
        /\ e.start_time < o.start_time
        /\ ~is_paused(e)
        /\ is_paused(o)

\* the dates unpause may be given for an entry: none (the clock) or a read of
\* the clock not before the pause
DatesFrom(e) == {Null} \cup {Some(t) : t \in {c \in ClockValues : c >= Val(e.pause_time)}}

\* C14: unpause(date) on a paused entry adds exactly the seconds from
\* pause_time to date to seconds_paused, pauses of a day or longer included,
\* and clears pause_time; on an entry that is not paused it changes nothing.
C14_UnpauseAddsPause ==
    \A e \in DOMAIN entries :
        IF is_paused(e)
        THEN \A date \in DatesFrom(e) :
                LET at == IF date = Null THEN now ELSE Val(date)
                IN  at >= Val(e.pause_time) =>
                      /\ unpause(e, date).seconds_paused
                           = e.seconds_paused + (at - Val(e.pause_time))
                      /\ unpause(e, date).pause_time = Null
        ELSE unpause(e, Null) = e

\* the entries of the person other than the row e itself
Others(e) ==
    {o \in DOMAIN entries : o.user = e.user /\ (o # e \/ entries[e] > 1)}

\* o is closed and shares a time span of positive length with e
SharesSpan(e, o) ==
    /\ ~IsNull(o.end_time)
    /\ o.start_time < Val(o.end_time)
    /\ (IF o.start_time > e.start_time THEN o.start_time ELSE e.start_time)
         < (IF Val(o.end_time) < Val(e.end_time) THEN Val(o.end_time) ELSE Val(e.end_time))

\* o has an instant in common with e's interval
Intersects(e, o) ==
    /\ o.start_time <= Val(e.end_time)
    /\ IsNull(o.end_time) \/ Val(o.end_time) >= e.start_time

\* C15: is_overlapping is True whenever another closed entry of the
\* person shares a span of positive length with e, whatever the
\* seconds_paused of the entries; False when no other entry intersects e.
C15_OverlapDetected ==
    \A e \in DOMAIN entries :
        ~IsNull(e.end_time) =>
            /\ (\E o \in Others(e) : SharesSpan(e, o)) => is_overlapping(e) = Some(TRUE)
            /\ (\A o \in Others(e) : ~Intersects(e, o)) => is_overlapping(e) = Some(FALSE)

\* the person's assignments
Assigned(who) == {a \in DOMAIN assignments : assignments[a].contact = who}

\* the person's assignments in the order sort_by_priority puts the rows of q
PriorityOrder(q, who) ==
    LET mine(a) == assignments[a].contact = who
    IN  SelectSeq(sort_by_priority(q), mine)

\* the pass has resolved each of the person's assignments once, in an order
\* sort_by_priority gives, from a store with no other block and no entry
PassInPriorityOrder ==
    /\ OnlyPassBlocks
    /\ entries = EmptyBag
    /\ Len(pass) = Cardinality(Assigned(Person))
    /\ \E q \in Querysets :
         [i \in 1..Len(pass) |-> pass[i].assignment] = PriorityOrder(q, Person)

SumOfMinimums(who) ==
    SumColumn([a \in Assigned(who) |-> assignments[a].min_hours_per_week], Assigned(who))

\* C12: when the person's assignments are resolved one after another in
\* sort_by_priority order, each result stored before the next is resolved, and
\* the capacity is at least the sum of their minimum weekly hours, every
\* assignment whose balance is at least its minimum gets at least its minimum.
C12_NoStarvation ==
    ( /\ PassInPriorityOrder
      /\ Capacity(Person) >= Dec(OrZero(SumOfMinimums(Person))) )
    => \A i \in 1..Len(pass) :
          LET a == pass[i].assignment
              min == Dec(assignments[a].min_hours_per_week)
          IN  assignments[a].num_hours >= min => pass[i].hours >= min

\* hours of the person's blocks of the week that the pass did not store
RECURSIVE PassHours(_)
PassHours(steps) ==
    IF steps = <<>> THEN 0 ELSE steps[1].hours + PassHours(Tail(steps))

InitialHoursInWeek == BlockHoursInWeek(Person, Some(now)) - PassHours(pass)

\* C13: if the person's blocks of the week sum to at most the capacity before
\* the pass, then after any number of weekly_commitment results stored as
\* blocks of the week, in any order, they still sum to at most the capacity.
C13_NeverOverCommitted ==
    InitialHoursInWeek <= Capacity(Person)
        => BlockHoursInWeek(Person, Some(now)) <= Capacity(Person)

\* two results stored on top of an earlier block of the week, the last hours
\* of the capacity handed out
C13_Witness ==
    /\ Len(pass) = 2
    /\ InitialHoursInWeek > 0
    /\ InitialHoursInWeek < Capacity(Person)
    /\ \A i \in 1..2 : pass[i].hours >= 0
    /\ \E i \in 1..2 : pass[i].hours > 0
    /\ BlockHoursInWeek(Person, Some(now)) = Capacity(Person)

=============================================================================
